---- MODULE Spec2Model ----
(***************************************************************************)
(* The scanner of loxrs (src/src/token.rs): Lexer over a UTF-8 source      *)
(* buffer and its Iterator::next().  A str is a sequence of bytes; an      *)
(* ASCII byte is written as the one-character string of its character, the *)
(* bytes of the two-byte characters U+00A0 (no-break space) and U+00E9 (e  *)
(* acute) are written by their hexadecimal values.                         *)
(***************************************************************************)
EXTENDS Integers, Sequences, FiniteSets, TLC

\* ------------------------------------------------------------------ bounds
MaxLen == 3      \* characters in the source buffer
MaxCalls == 5    \* calls to next() on one Lexer
MaxInterior == 3 \* characters between the quotes of a lexeme given to unescape

\* ------------------------------------------------------- bytes, characters
DQuote == "\""

Lead2 == {"C2", "C3"}          \* lead bytes of the two-byte characters
Cont == {"A0", "A9"}           \* their continuation bytes

Lower == {"a", "b", "c", "d", "e", "f", "g", "h", "i", "j", "k", "l", "m",
          "n", "o", "p", "q", "r", "s", "t", "u", "v", "w", "x", "y", "z"}
Digit09 == {"0", "1", "2", "3", "4", "5", "6", "7", "8", "9"}
Digit19 == {"1", "2", "3", "4", "5", "6", "7", "8", "9"}

\* The characters the source buffers are built from: one or two of each
\* class that next() distinguishes.
Alphabet == { <<"(">>, <<".">>, <<"!">>, <<"=">>, <<">">>, <<"<">>,
              <<DQuote>>, <<"0">>, <<"1">>, <<"o">>, <<"r">>, <<"_">>,
              <<" ">>, <<"C2", "A0">>, <<"@">>, <<"C3", "A9">> }

RECURSIVE Encode(_)
Encode(cs) == IF cs = <<>> THEN <<>> ELSE Head(cs) \o Encode(Tail(cs))

Sources == { Encode(cs) : cs \in UNION { [1..n -> Alphabet] : n \in 0..MaxLen } }

\* str::chars().next() on a non-empty str: the first scalar value
FirstChar(s) == IF s[1] \in Lead2 THEN SubSeq(s, 1, 2) ELSE <<s[1]>>

\* s[n..]
From(s, n) == SubSeq(s, n + 1, Len(s))

\* a byte index of s that a slice may start or end at
IsCharBoundary(s, n) ==
    /\ n >= 0
    /\ n <= Len(s)
    /\ (n < Len(s) => s[n + 1] \notin Cont)

\* is_whitespace as u8::is_ascii_whitespace would answer
IsWhitespace_ascii(c) == c = <<" ">>

\* char::is_whitespace, on the characters of Alphabet
IsWhitespace(c) == c = <<" ">> \/ c = <<"C2", "A0">>

\* str::contains('"')
ContainsQuote(s) == \E i \in 1..Len(s) : s[i] = DQuote

\* str::rfind('"'): the byte index of the last '"'
RFindQuote(s) == CHOOSE i \in 0..(Len(s) - 1) :
                    /\ s[i + 1] = DQuote
                    /\ \A j \in (i + 1)..(Len(s) - 1) : s[j + 1] # DQuote

\* ------------------------------------------------------- items of the stream
Token(tag, text) == [kind |-> "Token", tag |-> tag, text |-> text, lo |-> 0, hi |-> 0]
Diagnostic(msg, c, lo, hi) == [kind |-> "Err", tag |-> msg, text |-> c, lo |-> lo, hi |-> hi]
Exhausted == [kind |-> "None", tag |-> "", text |-> <<>>, lo |-> 0, hi |-> 0]
Abort == [kind |-> "Panic", tag |-> "", text |-> <<>>, lo |-> 0, hi |-> 0]

\* the cursor after a call and the item the call returned
Step(r, o, item) == [rest |-> r, offset |-> o, ret |-> item]

SingleCharToken(c) ==
    CASE c = <<"(">> -> "Lparen"
      [] c = <<")">> -> "Rparen"
      [] c = <<"{">> -> "Lbrace"
      [] c = <<"}">> -> "Rbrace"
      [] c = <<",">> -> "Comma"
      [] c = <<".">> -> "Dot"
      [] c = <<"-">> -> "Minus"
      [] c = <<"+">> -> "Plus"
      [] c = <<";">> -> "Semicolon"
      [] c = <<"*">> -> "Star"
      [] OTHER -> ""

Started(c) ==
    CASE c = <<"!">> -> "Bang"
      [] c = <<"=">> -> "Equal"
      [] c = <<">">> -> "Greater"
      [] c = <<"<">> -> "Less"
      [] c = <<DQuote>> -> "String"
      [] Len(c) = 1 /\ c[1] \in Digit09 -> "Number"
      [] Len(c) = 1 /\ c[1] \in Lower \cup {"_"} -> "Ident"
      [] OTHER -> ""

\* EndOfInput with the cursor advanced before the emptiness test
EndOfInput_advancing(rest, offset) == Step(rest, offset + 1, Exhausted)

\* `chars.next()?` on an empty rest
EndOfInput(rest, offset) == Step(rest, offset, Exhausted)

\* Unexpected with the span counted in characters instead of bytes
Unexpected_onechar(c, rest, offset) ==
    Step(rest, offset, Diagnostic("Unexpected token", c, offset - 1, offset))

\* the `c =>` arm of the first match; rest and offset are already past c
Unexpected(c, rest, offset) ==
    Step(rest, offset, Diagnostic("Unexpected token", c, offset - Len(c), offset))

\* the peek loop of Started::Ident: bytes of the run rest starts with
RECURSIVE IdentLen(_)
IdentLen(s) ==
    IF s # <<>> /\ s[1] \in Lower \cup Digit19 \cup {"_"}
    THEN 1 + IdentLen(Tail(s))
    ELSE 0

\* StartedIdent that advances offset and leaves rest at the start of the word
StartedIdent_restkept(whole, c, rest, offset) ==
    LET len == IdentLen(rest)
    IN  Step(rest, offset + len,
             Token("Ident", SubSeq(whole, offset - Len(c) + 1, len + offset)))

\* Started::Ident
StartedIdent(whole, c, rest, offset) ==
    LET len == IdentLen(rest)
        a == offset - Len(c)
        b == len + offset
    IN  IF a <= b /\ IsCharBoundary(whole, a) /\ IsCharBoundary(whole, b)
           /\ IsCharBoundary(rest, len)
        THEN Step(From(rest, len), offset + len, Token("Ident", SubSeq(whole, a + 1, b)))
        ELSE Step(rest, offset, Abort)

\* StartedString with the label put after the opening quote
StartedString_labelafter(c, current_onwards, rest, offset) ==
    IF ~ContainsQuote(rest)
    THEN Step(rest, offset,
              Diagnostic("Missing closing double quote", <<>>, offset, offset + Len(c)))
    ELSE LET idx == RFindQuote(rest)
         IN  Step(From(rest, idx + 1), offset + idx + 1,
                  Token("String", SubSeq(current_onwards, 1, idx + 2)))

\* Started::String.  rfind runs only after contains('"') held, so it finds a
\* quote and the trailing `return None` is not reached.
StartedString(c, current_onwards, rest, offset) ==
    IF ~ContainsQuote(rest)
    THEN Step(rest, offset,
              Diagnostic("Missing closing double quote", <<>>, offset - Len(c), offset))
    ELSE LET idx == RFindQuote(rest)
         IN  IF IsCharBoundary(current_onwards, idx + 2) /\ IsCharBoundary(rest, idx + 1)
             THEN Step(From(rest, idx + 1), offset + idx + 1,
                       Token("String", SubSeq(current_onwards, 1, idx + 2)))
             ELSE Step(rest, offset, Abort)

\* StartedOperator that consumes the peeked character in the fallback too
StartedOperator_consuming(one, two, c, rest, offset) ==
    IF rest # <<>>
    THEN LET ch == FirstChar(rest)
         IN  Step(From(rest, Len(ch)), offset + Len(ch),
                  Token(IF ch = <<"=">> THEN two ELSE one, <<>>))
    ELSE Step(rest, offset,
              Diagnostic("Unexpected token", c, offset - Len(c), offset))

\* StartedOperator that leaves the cursor before the `=` of a two-character kind
StartedOperator_unadvanced(one, two, c, rest, offset) ==
    IF rest # <<>>
    THEN Step(rest, offset, Token(IF FirstChar(rest) = <<"=">> THEN two ELSE one, <<>>))
    ELSE Step(rest, offset,
              Diagnostic("Unexpected token", c, offset - Len(c), offset))

\* Started::Bang, Equal, Greater, Less: the four arms differ in the kinds only
StartedOperator(one, two, c, rest, offset) ==
    IF rest # <<>>
    THEN LET ch == FirstChar(rest)
         IN  IF ch = <<"=">>
             THEN Step(From(rest, 1), offset + Len(ch), Token(two, <<>>))
             ELSE Step(rest, offset, Token(one, <<>>))
    ELSE Unexpected(c, rest, offset)

\* Started::Number falls to `_ => todo!()`
StartedNumber(rest, offset) == Step(rest, offset, Abort)

RECURSIVE Lexer_next(_, _, _)
Lexer_next(whole, rest, offset) ==
    IF rest = <<>>
    THEN EndOfInput(rest, offset)
    ELSE LET c == FirstChar(rest)
             current_onwards == rest
             rest1 == From(rest, Len(c))
             offset1 == offset + Len(c)
             start == Started(c)
         IN  CASE SingleCharToken(c) # "" ->
                    Step(rest1, offset1, Token(SingleCharToken(c), <<>>))
               [] start = "Ident" -> StartedIdent(whole, c, rest1, offset1)
               [] start = "String" -> StartedString(c, current_onwards, rest1, offset1)
               [] start = "Bang" -> StartedOperator("Bang", "BangEqual", c, rest1, offset1)
               [] start = "Equal" -> StartedOperator("Equal", "EqualEqual", c, rest1, offset1)
               [] start = "Greater" -> StartedOperator("Greater", "GreaterEqual", c, rest1, offset1)
               [] start = "Less" -> StartedOperator("Less", "LessEqual", c, rest1, offset1)
               [] start = "Number" -> StartedNumber(rest1, offset1)
               [] start = "" /\ SingleCharToken(c) = "" /\ IsWhitespace(c) ->
                    Lexer_next(whole, rest1, offset1)
               [] OTHER -> Unexpected(c, rest1, offset1)

\* ------------------------------------------------------ TokenType::unescape
Backslash == "\\"

\* a returned value, or the panic of a slice out of range
Returned(v) == [panic |-> FALSE, value |-> v]
Panicked == [panic |-> TRUE, value |-> <<>>]

\* str::contains('\\')
ContainsBackslash(s) == \E i \in 1..Len(s) : s[i] = Backslash

\* UnescapeChars with `\r` decoded as a newline and a trailing backslash lost
RECURSIVE UnescapeChars_slipped(_)
UnescapeChars_slipped(s) ==
    IF s = <<>>
    THEN <<>>
    ELSE LET ch == FirstChar(s)
             after == From(s, Len(ch))
         IN  IF ch = <<Backslash>>
             THEN IF after = <<>>
                  THEN <<>>
                  ELSE LET nx == FirstChar(after)
                           tail == From(after, Len(nx))
                       IN  CASE nx = <<"n">> -> <<"LF">> \o UnescapeChars_slipped(tail)
                             [] nx = <<"r">> -> <<"LF">> \o UnescapeChars_slipped(tail)
                             [] nx = <<"t">> -> <<"TAB">> \o UnescapeChars_slipped(tail)
                             [] nx = <<Backslash>> -> <<Backslash>> \o UnescapeChars_slipped(tail)
                             [] nx = <<DQuote>> -> <<DQuote>> \o UnescapeChars_slipped(tail)
                             [] OTHER -> <<Backslash>> \o nx \o UnescapeChars_slipped(tail)
             ELSE ch \o UnescapeChars_slipped(after)

\* the `while let Some(ch) = chars.next()` loop; the bytes of newline,
\* carriage return and tab are written LF, CR and TAB
RECURSIVE UnescapeChars(_)
UnescapeChars(s) ==
    IF s = <<>>
    THEN <<>>
    ELSE LET ch == FirstChar(s)
             after == From(s, Len(ch))
         IN  IF ch = <<Backslash>>
             THEN IF after = <<>>
                  THEN <<Backslash>>
                  ELSE LET nx == FirstChar(after)
                           tail == From(after, Len(nx))
                       IN  CASE nx = <<"n">> -> <<"LF">> \o UnescapeChars(tail)
                             [] nx = <<"r">> -> <<"CR">> \o UnescapeChars(tail)
                             [] nx = <<"t">> -> <<"TAB">> \o UnescapeChars(tail)
                             [] nx = <<Backslash>> -> <<Backslash>> \o UnescapeChars(tail)
                             [] nx = <<DQuote>> -> <<DQuote>> \o UnescapeChars(tail)
                             [] OTHER -> <<Backslash>> \o nx \o UnescapeChars(tail)
             ELSE ch \o UnescapeChars(after)

\* unescape with only the opening quote trimmed
unescape_keepclosing(s) ==
    IF Len(s) >= 1 /\ IsCharBoundary(s, 1)
    THEN LET t == SubSeq(s, 2, Len(s))
         IN  IF ~ContainsBackslash(t) THEN Returned(t) ELSE Returned(UnescapeChars(t))
    ELSE Panicked

unescape(s) ==
    IF 1 <= Len(s) - 1 /\ IsCharBoundary(s, 1) /\ IsCharBoundary(s, Len(s) - 1)
    THEN LET t == SubSeq(s, 2, Len(s) - 1)
         IN  IF ~ContainsBackslash(t) THEN Returned(t) ELSE Returned(UnescapeChars(t))
    ELSE Panicked

\* the lexemes unescape is applied to: a quoted interior of at most
\* MaxInterior characters
EscapeAlphabet == { <<Backslash>>, <<"n">>, <<"r">>, <<"t">>, <<DQuote>>,
                    <<"x">>, <<"C3", "A9">> }

Lexemes == { <<DQuote>> \o Encode(cs) \o <<DQuote>> :
                cs \in UNION { [1..n -> EscapeAlphabet] : n \in 0..MaxInterior } }

\* ------------------------------------------------- Display for TokenType
\* the text fmt writes, one byte per element, or the panic of todo!()
Display(item) ==
    LET t == item.tag
    IN  CASE
         t = "Plus" ->
           Returned(<<"P", "L", "U", "S", " ", "+", " ", "n", "u", "l", "l">>)
      [] t = "Minus" ->
           Returned(<<"M", "I", "N", "U", "S", " ", "-", " ", "n", "u", "l", "l">>)
      [] t = "Comma" ->
           Returned(<<"C", "O", "M", "M", "A", " ", ",", " ", "n", "u", "l", "l">>)
      [] t = "Semicolon" ->
           Returned(<<"S", "E", "M", "I", "C", "O", "L", "O", "N", " ", ";", " ", "n", "u", "l", "l">>)
      [] t = "Lparen" ->
           Returned(<<"L", "E", "F", "T", "_", "P", "A", "R", "E", "N", " ", "(", " ", "n", "u", "l", "l">>)
      [] t = "Rparen" ->
           Returned(<<"R", "I", "G", "H", "T", "_", "P", "A", "R", "E", "N", " ", ")", " ", "n", "u", "l", "l">>)
      [] t = "Lbrace" ->
           Returned(<<"L", "E", "F", "T", "_", "B", "R", "A", "C", "E", " ", "{", " ", "n", "u", "l", "l">>)
      [] t = "Rbrace" ->
           Returned(<<"R", "I", "G", "H", "T", "_", "B", "R", "A", "C", "E", " ", "}", " ", "n", "u", "l", "l">>)
      [] t = "Star" ->
           Returned(<<"S", "T", "A", "R", " ", "*", " ", "n", "u", "l", "l">>)
      [] t = "Dot" ->
           Returned(<<"D", "O", "T", " ", ".", " ", "n", "u", "l", "l">>)
      [] t = "Bang" ->
           Returned(<<"B", "A", "N", "G", " ", "!", " ", "n", "u", "l", "l">>)
      [] t = "BangEqual" ->
           Returned(<<"B", "A", "N", "G", "_", "E", "Q", "U", "A", "L", " ", "!", "=", " ", "n", "u", "l", "l">>)
      [] t = "Equal" ->
           Returned(<<"E", "Q", "U", "A", "L", " ", "=", " ", "n", "u", "l", "l">>)
      [] t = "EqualEqual" ->
           Returned(<<"E", "Q", "U", "A", "L", "_", "E", "Q", "U", "A", "L", " ", "=", "=", " ", "n", "u", "l", "l">>)
      [] t = "Greater" ->
           Returned(<<"G", "R", "E", "A", "T", "E", "R", " ", ">", " ", "n", "u", "l", "l">>)
      [] t = "GreaterEqual" ->
           Returned(<<"G", "R", "E", "A", "T", "E", "R", "_", "E", "Q", "U", "A", "L", " ", ">", "=", " ", "n", "u", "l", "l">>)
      [] t = "Less" ->
           Returned(<<"L", "E", "S", "S", " ", "<", " ", "n", "u", "l", "l">>)
      [] t = "LessEqual" ->
           Returned(<<"L", "E", "S", "S", "_", "E", "Q", "U", "A", "L", " ", "<", "=", " ", "n", "u", "l", "l">>)
      [] t = "String" ->
           LET u == unescape(item.text)
           IN  IF u.panic
               THEN Panicked
               ELSE Returned(<<"S", "t", "r", "i", "n", "g", " ">> \o item.text \o <<" ">> \o u.value)
      [] t = "Ident" ->
           Returned(<<"I", "D", "E", "N", "T", "I", "F", "I", "E", "R", " ">> \o item.text \o <<" ", "n", "u", "l", "l">>)
      [] OTHER -> Panicked

\* ------------------------------------------------------------------- state
VARIABLES whole, rest, offset, log, lexeme, unescaped, printed, result

vars == <<whole, rest, offset, log, lexeme, unescaped, printed, result>>

\* run is not on the stack
NoRun ==
    /\ printed = <<>>
    /\ result = "none"

\* no call of unescape on its own
NoLexeme ==
    /\ lexeme = <<>>
    /\ unescaped = <<>>

\* Lexer::new(input)
Init ==
    /\ whole \in Sources
    /\ rest = whole
    /\ offset = 0
    /\ log = <<>>
    /\ NoLexeme
    /\ NoRun

\* the process is gone once a call has panicked
Aborted == log # <<>> /\ log[Len(log)].item.kind = "Panic"

\* one call of Iterator::next(); log records the cursor before and after
\* the call and the item returned
Next_call ==
    /\ Len(log) < MaxCalls
    /\ ~Aborted
    /\ LET r == Lexer_next(whole, rest, offset)
       IN  /\ rest' = r.rest
           /\ offset' = r.offset
           /\ log' = Append(log, [from |-> offset, to |-> r.offset, item |-> r.ret])
    /\ UNCHANGED <<whole, lexeme, unescaped, printed, result>>

Next == Next_call

Spec == Init /\ [][Next]_vars

\* ---------------------------------------------- unescape called on a lexeme
InitUnescape ==
    /\ whole = <<>>
    /\ rest = <<>>
    /\ offset = 0
    /\ log = <<>>
    /\ lexeme \in Lexemes
    /\ unescaped = <<>>
    /\ NoRun

\* TokenType::unescape(lexeme); unescaped holds what the call gave
Unescape_call ==
    /\ unescaped = <<>>
    /\ unescaped' = <<unescape(lexeme)>>
    /\ UNCHANGED <<whole, rest, offset, log, lexeme, printed, result>>

NextUnescape == Unescape_call

SpecUnescape == InitUnescape /\ [][NextUnescape]_vars

TypeOK ==
    /\ offset \in 0..Len(whole)
    /\ rest = From(whole, offset)
    /\ Len(log) <= MaxCalls

\* ------------------------------------------------------- run(source), main.rs
\* let lexer = token::Lexer::new(&source)
InitRun ==
    /\ whole \in Sources
    /\ rest = whole
    /\ offset = 0
    /\ log = <<>>
    /\ NoLexeme
    /\ printed = <<>>
    /\ result = "running"

\* Propagate that skips an Err item and goes on with the loop
Propagate_skipping(item) ==
    CASE item.kind = "None" -> result' = "Ok" /\ printed' = printed
      [] item.kind = "Err" -> result' = "running" /\ printed' = printed
      [] item.kind = "Panic" -> result' = "panic" /\ printed' = printed
      [] OTHER ->
           IF Display(item).panic
           THEN result' = "panic" /\ printed' = printed
           ELSE result' = "running" /\ printed' = Append(printed, Display(item).value)

\* the body of `for t in lexer`: `let token = t?; println!("{token}")`, and
\* `Ok(())` when the iterator is exhausted
Propagate(item) ==
    CASE item.kind = "None" -> result' = "Ok" /\ printed' = printed
      [] item.kind = "Err" -> result' = "Err" /\ printed' = printed
      [] item.kind = "Panic" -> result' = "panic" /\ printed' = printed
      [] OTHER ->
           IF Display(item).panic
           THEN result' = "panic" /\ printed' = printed
           ELSE result' = "running" /\ printed' = Append(printed, Display(item).value)

\* one turn of the for loop of run
Run_iter ==
    /\ result = "running"
    /\ LET r == Lexer_next(whole, rest, offset)
       IN  /\ rest' = r.rest
           /\ offset' = r.offset
           /\ log' = Append(log, [from |-> offset, to |-> r.offset, item |-> r.ret])
           /\ Propagate(r.ret)
    /\ UNCHANGED <<whole, lexeme, unescaped>>

NextRun == Run_iter

SpecRun == InitRun /\ [][NextRun]_vars

\* ------------------------------------------- next() called again and again
FairSpec == Spec /\ WF_vars(Next_call)

\* ------------------------------------------------- what the calls were given
Calls == DOMAIN log

RECURSIVE SkipWhitespace(_)
SkipWhitespace(s) ==
    IF s # <<>> /\ IsWhitespace(FirstChar(s))
    THEN SkipWhitespace(From(s, Len(FirstChar(s))))
    ELSE s

\* the source from the first non-whitespace character that call i read
Pending(i) == SkipWhitespace(From(whole, log[i].from))

\* the byte offset of that character in the source buffer
ByteOffset(i) == Len(whole) - Len(Pending(i))

Reads(i, bytes) == Pending(i) # <<>> /\ Pending(i)[1] \in bytes

OperatorStart == {"!", "=", ">", "<"}
Punctuation == {"(", ")", "{", "}", ",", ".", "-", "+", ";", "*"}
WordStart == Lower \cup {"_"}
WordChar == Lower \cup Digit09 \cup {"_"}

\* the first character call i read is one no state of the scanner classifies
ReadsUnclassified(i) ==
    /\ Pending(i) # <<>>
    /\ Pending(i)[1] \notin Punctuation \cup OperatorStart \cup {DQuote} \cup Digit09 \cup WordStart

RECURSIVE RunLen(_, _)
RunLen(s, set) == IF s # <<>> /\ s[1] \in set THEN 1 + RunLen(Tail(s), set) ELSE 0

\* C1: once next() has returned a Diagnostic, every later call returns the
\* exhausted signal and leaves the cursor where it was.
C1_StreamEndsAtFirstDiagnostic ==
    \A i, j \in Calls :
        (i < j /\ log[i].item.kind = "Err")
            => (log[j].item.kind = "None" /\ log[j].to = log[j].from)

\* C2: every call of next() returns a Token, a Diagnostic or end-of-input;
\* none aborts.
C2_NextNeverAborts ==
    \A i \in Calls : log[i].item.kind \in {"Token", "Err", "None"}

OneCharKind(b) ==
    CASE b = "!" -> "Bang" [] b = "=" -> "Equal" [] b = ">" -> "Greater" [] OTHER -> "Less"
TwoCharKind(b) ==
    CASE b = "!" -> "BangEqual" [] b = "=" -> "EqualEqual"
      [] b = ">" -> "GreaterEqual" [] OTHER -> "LessEqual"

\* C3: a call that reads `!`, `=`, `>` or `<` returns the two-character kind
\* when `=` follows and the one-character kind otherwise, also at the end of
\* the input; it never returns a Diagnostic.
C3_LookaheadNeverFails ==
    \A i \in Calls :
        Reads(i, OperatorStart) =>
            LET p == Pending(i)
            IN  /\ log[i].item.kind = "Token"
                /\ log[i].item.tag = IF Len(p) >= 2 /\ p[2] = "="
                                     THEN TwoCharKind(p[1])
                                     ELSE OneCharKind(p[1])

\* index in s of its first `"`
FindQuote(s) == CHOOSE k \in 1..Len(s) : s[k] = DQuote /\ \A m \in 1..(k - 1) : s[m] # DQuote

\* C4: a call that reads `"` with a further `"` in the buffer returns a String
\* whose raw lexeme runs from the opening quote through the FIRST following
\* `"`, and leaves the cursor right after that quote.
C4_StringClosedByNextQuote ==
    \A i \in Calls :
        (Reads(i, {DQuote}) /\ ContainsQuote(Tail(Pending(i)))) =>
            LET p == Pending(i)
                k == FindQuote(Tail(p))
            IN  /\ log[i].item.kind = "Token"
                /\ log[i].item.tag = "String"
                /\ log[i].item.text = SubSeq(p, 1, k + 1)
                /\ log[i].to = ByteOffset(i) + k + 1

\* bytes of the numeric literal s starts with: digits, then `.` and digits
\* when a digit follows the `.`
NumberLen(s) ==
    LET n == RunLen(s, Digit09)
    IN  IF Len(s) >= n + 2 /\ s[n + 1] = "." /\ s[n + 2] \in Digit09
        THEN n + 1 + RunLen(From(s, n + 1), Digit09)
        ELSE n

\* C5: a call that reads an ASCII digit returns one Number token whose raw
\* lexeme is the maximal run of digits with, when the `.` is followed by a
\* digit, the `.` and the digits after it; the cursor is left after it.
C5_NumberLexeme ==
    \A i \in Calls :
        Reads(i, Digit09) =>
            LET p == Pending(i)
            IN  /\ log[i].item.kind = "Token"
                /\ log[i].item.tag = "Number"
                /\ log[i].item.text = SubSeq(p, 1, NumberLen(p))
                /\ log[i].to = ByteOffset(i) + NumberLen(p)

KeywordKind(w) ==
    CASE w = <<"a", "n", "d">> -> "And"
      [] w = <<"c", "l", "a", "s", "s">> -> "Class"
      [] w = <<"e", "l", "s", "e">> -> "Else"
      [] w = <<"f", "a", "l", "s", "e">> -> "False"
      [] w = <<"f", "o", "r">> -> "For"
      [] w = <<"f", "u", "n">> -> "Fun"
      [] w = <<"i", "f">> -> "If"
      [] w = <<"n", "i", "l">> -> "Nil"
      [] w = <<"o", "r">> -> "Or"
      [] w = <<"p", "r", "i", "n", "t">> -> "Print"
      [] w = <<"r", "e", "t", "u", "r", "n">> -> "Return"
      [] w = <<"s", "u", "p", "e", "r">> -> "Super"
      [] w = <<"t", "h", "i", "s">> -> "This"
      [] w = <<"t", "r", "u", "e">> -> "True"
      [] w = <<"v", "a", "r">> -> "Var"
      [] w = <<"w", "h", "i", "l", "e">> -> "While"
      [] OTHER -> "Ident"

\* the text call i consumed, from the first non-whitespace character on
Consumed(i) == SubSeq(whole, ByteOffset(i) + 1, log[i].to)

\* C6: the word a call scanned is returned as the keyword kind when it is one
\* of the sixteen reserved words and as Identifier(word) otherwise.
C6_KeywordClassification ==
    \A i \in Calls :
        (Reads(i, WordStart) /\ log[i].item.kind = "Token") =>
            LET w == Consumed(i)
            IN  /\ log[i].item.tag = KeywordKind(w)
                /\ (KeywordKind(w) = "Ident" => log[i].item.text = w)

\* C7: the word a call consumes is the maximal run of lowercase letters,
\* digits 0-9 and `_`; the byte after it is none of these.
C7_WordExtent ==
    \A i \in Calls :
        Reads(i, WordStart) =>
            /\ log[i].item.kind = "Token"
            /\ Len(Consumed(i)) = RunLen(Pending(i), WordChar)
            /\ (log[i].to < Len(whole) => whole[log[i].to + 1] \notin WordChar)

\* C8: once next() has returned end-of-input, the next call returns
\* end-of-input as well and leaves offset and rest unchanged.
C8_IdempotentExhaustion ==
    [][(log # <<>> /\ log[Len(log)].item.kind = "None")
          => /\ log'[Len(log')].item.kind = "None"
             /\ offset' = offset
             /\ rest' = rest]_vars

C8_Witness ==
    /\ Len(log) >= 3
    /\ log[1].item.kind = "Token"
    /\ log[Len(log) - 1].item.kind = "None"
    /\ log[Len(log)].item.kind = "None"
    /\ rest = <<>>

\* C9: a call whose first non-whitespace character c is in no class of the
\* scanner returns a Diagnostic labelling [b, b + utf8_len(c)), b the byte
\* offset of c in the source buffer.
C9_UnexpectedCharacterSpan ==
    \A i \in Calls :
        ReadsUnclassified(i) =>
            /\ log[i].item.kind = "Err"
            /\ log[i].item.tag = "Unexpected token"
            /\ log[i].item.lo = ByteOffset(i)
            /\ log[i].item.hi = ByteOffset(i) + Len(FirstChar(Pending(i)))

\* a two-byte character is reported after two-byte characters
C9_Witness ==
    \E i \in Calls :
        /\ ReadsUnclassified(i)
        /\ whole[1] \in Lead2
        /\ Len(FirstChar(Pending(i))) = 2
        /\ log[i].item.kind = "Err"
        /\ log[i].item.lo >= 4

\* C10: a call that reads `"` at byte offset b returns the Diagnostic
\* "Missing closing double quote" exactly when no `"` follows in the buffer,
\* and the Diagnostic labels [b, b + 1).
C10_UnterminatedString ==
    \A i \in Calls :
        Reads(i, {DQuote}) =>
            LET missing == /\ log[i].item.kind = "Err"
                           /\ log[i].item.tag = "Missing closing double quote"
            IN  /\ missing <=> ~ContainsQuote(From(whole, ByteOffset(i) + 1))
                /\ missing => /\ log[i].item.lo = ByteOffset(i)
                              /\ log[i].item.hi = ByteOffset(i) + 1

C10_Witness ==
    \E i \in Calls :
        /\ Reads(i, {DQuote})
        /\ log[i].item.kind = "Err"
        /\ log[i].item.tag = "Missing closing double quote"
        /\ log[i].item.lo >= 2
        /\ log[i].to < Len(whole)

\* the source is one string literal whose interior has no `"` and no `\`
OneLiteral ==
    /\ Len(whole) >= 2
    /\ whole[1] = DQuote
    /\ whole[Len(whole)] = DQuote
    /\ \A k \in 2..(Len(whole) - 1) : whole[k] \notin {DQuote, Backslash}

\* C11: for a source that is one string literal without `"` or `\` inside,
\* next() returns String(raw) and unescape(raw) is the text between the quotes.
C11_RoundTrip ==
    (OneLiteral /\ log # <<>>) =>
        /\ log[1].item.kind = "Token"
        /\ log[1].item.tag = "String"
        /\ ~unescape(log[1].item.text).panic
        /\ unescape(log[1].item.text).value = SubSeq(whole, 2, Len(whole) - 1)

C11_Witness ==
    /\ OneLiteral
    /\ Len(whole) >= 4
    /\ whole[2] \in Lead2
    /\ log # <<>>
    /\ log[1].item.tag = "String"

EscapeTable == [b \in {"n", "r", "t", Backslash, DQuote} |->
                  CASE b = "n" -> "LF" [] b = "r" -> "CR" [] b = "t" -> "TAB"
                    [] b = Backslash -> Backslash [] OTHER -> DQuote]

\* the decoding the table prescribes, byte by byte
RECURSIVE Decoded(_)
Decoded(t) ==
    IF t = <<>> THEN <<>>
    ELSE IF t[1] # Backslash THEN <<t[1]>> \o Decoded(Tail(t))
    ELSE IF Len(t) = 1 THEN <<Backslash>>
    ELSE IF t[2] \in DOMAIN EscapeTable THEN <<EscapeTable[t[2]]>> \o Decoded(From(t, 2))
    ELSE <<Backslash, t[2]>> \o Decoded(From(t, 2))

Interior(s) == SubSeq(s, 2, Len(s) - 1)

\* C12: unescape strips the first and the last byte of a quoted lexeme and
\* decodes the interior left to right: `\n`, `\r`, `\t`, `\\`, `\"` become
\* newline, carriage return, tab, backslash and double quote, a backslash
\* before any other character stays with that character, a backslash that
\* ends the interior stays, every other character is copied.
C12_EscapeTable ==
    unescaped # <<>> =>
        /\ ~unescaped[1].panic
        /\ unescaped[1].value = Decoded(Interior(lexeme))

\* an escape of the table, an unknown escape and a closing lone backslash
C12_Witness ==
    /\ unescaped # <<>>
    /\ Len(lexeme) = 5
    /\ lexeme[2] = Backslash
    /\ lexeme[3] = "r"
    /\ lexeme[4] = Backslash
    /\ unescaped[1].value = <<"CR", Backslash>>

\* the item a scan of the suffix from byte sh gives, seen from the whole buffer
SameItem(item, fresh, sh) ==
    /\ item.kind = fresh.kind
    /\ item.tag = fresh.tag
    /\ item.text = fresh.text
    /\ (item.kind = "Err" => item.lo = fresh.lo + sh /\ item.hi = fresh.hi + sh)

\* call i read an operator start that is followed by a character other than `=`
Fallback(i) ==
    /\ Reads(i, OperatorStart)
    /\ Len(Pending(i)) >= 2
    /\ Pending(i)[2] # "="

\* C13: when `!`, `=`, `>` or `<` is followed by a character that is not `=`,
\* the cursor advances by the one operator byte, and the following call
\* returns what a fresh scan of the text from that following character returns.
C13_FallbackConsumesNothing ==
    \A i \in Calls :
        Fallback(i) =>
            LET sh == ByteOffset(i) + 1
                suffix == From(whole, sh)
                fresh == Lexer_next(suffix, suffix, 0)
            IN  /\ log[i].to = sh
                /\ (i + 1 \in Calls =>
                        /\ log[i + 1].from = sh
                        /\ log[i + 1].to = sh + fresh.offset
                        /\ SameItem(log[i + 1].item, fresh.ret, sh))

C13_Witness ==
    \E i \in Calls :
        /\ Fallback(i)
        /\ i + 1 \in Calls
        /\ log[i].item.kind = "Token"
        /\ log[i + 1].item.kind = "Token"
        /\ log[i + 1].from = ByteOffset(i + 1)

\* the Unicode White_Space characters among those of the sources
UnicodeWhitespace == { <<" ">>, <<"C2", "A0">> }

RECURSIVE SkipBlank(_)
SkipBlank(s) ==
    IF s # <<>> /\ FirstChar(s) \in UnicodeWhitespace
    THEN SkipBlank(From(s, Len(FirstChar(s))))
    ELSE s

\* the source from the first character after the whitespace call i started at
AfterBlank(i) == SkipBlank(From(whole, log[i].from))

\* C14: on a source of whitespace only (the empty one too) the first call
\* returns end-of-input; in any source a call returns end-of-input exactly
\* when only whitespace is left, and what it returns otherwise starts at the
\* first character that is not whitespace.
C14_WhitespaceProducesNothing ==
    /\ (SkipBlank(whole) = <<>> /\ log # <<>>) => log[1].item.kind = "None"
    /\ \A i \in Calls :
          LET it == log[i].item
              b == Len(whole) - Len(AfterBlank(i))
          IN  /\ (it.kind = "None") <=> (AfterBlank(i) = <<>>)
              /\ (it.kind = "Err") => (it.lo = b /\ it.hi > b)
              /\ (it.kind = "Token" /\ it.text # <<>>) => it.text[1] = AfterBlank(i)[1]
              /\ (it.kind = "Token") => (log[i].to > b)

\* whitespace, one of two bytes, before a token and after it
C14_Witness ==
    /\ Len(log) >= 2
    /\ whole # <<>>
    /\ whole[1] \in Lead2
    /\ log[1].item.kind = "Token"
    /\ Len(AfterBlank(1)) < Len(whole)
    /\ log[2].item.kind = "None"
    /\ log[2].from < Len(whole)

\* C16: between calls rest is whole[offset..], offset lies in 0..len(whole)
\* and offset never decreases from one call to the next.
C16_CursorInvariant ==
    /\ offset \in 0..Len(whole)
    /\ rest = From(whole, offset)
    /\ (log # <<>> => offset = log[Len(log)].to)
    /\ \A i \in Calls :
          /\ log[i].from <= log[i].to
          /\ (i > 1 => log[i].from = log[i - 1].to)

\* a token, a Diagnostic and end-of-input have been returned
C16_Witness ==
    /\ Len(log) >= 3
    /\ log[1].item.tag = "Ident"
    /\ Len(log[1].item.text) >= 2
    /\ log[2].item.kind = "Err"
    /\ log[3].item.kind = "None"
    /\ offset = Len(whole)

TwoCharKinds == {"BangEqual", "EqualEqual", "GreaterEqual", "LessEqual"}
TextKinds == {"String", "Ident", "Number"}

\* bytes of the lexeme of a token
LexemeLen(item) ==
    CASE item.tag \in TextKinds -> Len(item.text)
      [] item.tag \in TwoCharKinds -> 2
      [] OTHER -> 1

IsToken(i) == log[i].item.kind = "Token"
TokenLo(i) == ByteOffset(i)
TokenHi(i) == ByteOffset(i) + LexemeLen(log[i].item)

\* C17: the byte range of every returned token is non-empty and lies in the
\* source, a lexeme carried by a token is the source text of its range, and
\* the range of an earlier token ends at or before the start of a later one.
C17_TokenRanges ==
    \A i \in Calls :
        IsToken(i) =>
            /\ TokenLo(i) < TokenHi(i)
            /\ TokenHi(i) <= log[i].to
            /\ log[i].to <= Len(whole)
            /\ (log[i].item.tag \in TextKinds
                    => log[i].item.text = SubSeq(whole, TokenLo(i) + 1, TokenHi(i)))
            /\ \A j \in Calls : (i < j /\ IsToken(j)) => TokenHi(i) <= TokenLo(j)

\* a two-character operator followed by another token
C17_Witness ==
    \E i \in Calls :
        /\ i + 1 \in Calls
        /\ IsToken(i)
        /\ IsToken(i + 1)
        /\ log[i].item.tag \in TwoCharKinds
        /\ TokenHi(i) = TokenLo(i + 1)

\* C15: Display renders String(raw) as `STRING`, a space, the raw lexeme with
\* its quotes, a space and the decoded value.
C15_StringRendering ==
    \A k \in 1..Len(printed) :
        log[k].item.tag = "String" =>
            printed[k] = <<"S", "T", "R", "I", "N", "G", " ">> \o log[k].item.text
                            \o <<" ">> \o unescape(log[k].item.text).value

\* C18: run prints the rendering of each token in the order next() returned
\* them; the first Diagnostic is the last item run takes from the lexer and
\* is the error run returns.
C18_RunStopsAtFirstDiagnostic ==
    /\ \A i \in Calls :
          log[i].item.kind = "Err" => (i = Len(log) /\ result = "Err")
    /\ result = "Err" => (log # <<>> /\ log[Len(log)].item.kind = "Err")
    /\ Len(printed) = Cardinality({i \in Calls : IsToken(i)})
    /\ \A k \in 1..Len(printed) :
          /\ IsToken(k)
          /\ printed[k] = Display(log[k].item).value

\* run returned the error with a token printed and a token left unscanned
C18_Witness ==
    /\ result = "Err"
    /\ Len(printed) >= 1
    /\ SkipBlank(rest) # <<>>
    /\ SingleCharToken(FirstChar(SkipBlank(rest))) # ""

NonTerminal == {i \in Calls : log[i].item.kind \in {"Token", "Err"}}

\* C19: every call that returns a Token or a Diagnostic advances offset by at
\* least one byte, a source of n bytes gives at most n such items, and next()
\* called again and again returns end-of-input in the end.
C19_FiniteStream ==
    /\ [](\A i \in NonTerminal : log[i].to > log[i].from)
    /\ [](Cardinality(NonTerminal) <= Len(whole))
    /\ <>(log # <<>> /\ log[Len(log)].item.kind = "None")

====
